---- MODULE Spec2Model ----
(***************************************************************************)
(* Event Horizon: the WGSL ray-marching kernel (fs_main of                 *)
(* BLACK_HOLE_SHADER) and the React harness that feeds it                  *)
(* (App, WebGPURenderer).                                                  *)
(*                                                                         *)
(* Real numbers of the shader are fixed-point integers: the value v is     *)
(* held as v * ONE, truncated toward zero.  Every shader expression is     *)
(* translated operator by operator in the order of the source.             *)
(***************************************************************************)
EXTENDS Integers, Sequences, FiniteSets, TLC

\* The fixed-point unit: 1.0 of the shader.
ONE == 10 * 100

---------------------------------------------------------------------------
\* Fixed-point arithmetic (f32 operators of WGSL)

Abs(a) == IF a < 0 THEN -a ELSE a

Sgn(a) == IF a < 0 THEN -1 ELSE 1

Min(a, b) == IF a < b THEN a ELSE b

Max(a, b) == IF a > b THEN a ELSE b

Clamp(x, lo, hi) == Min(Max(x, lo), hi)

\* Integer quotient truncated toward zero.
QDiv(a, b) == Sgn(a) * Sgn(b) * (Abs(a) \div Abs(b))

\* a * b of two fixed-point numbers; the product is formed in two halves so
\* that it stays inside the 32-bit integers of the model checker.
Mul(a, b) ==
  Sgn(a) * Sgn(b) *
    ((Abs(a) \div ONE) * Abs(b) + ((Abs(a) % ONE) * Abs(b)) \div ONE)

\* a / b of two fixed-point numbers, the quotient formed in two halves.
Div(a, b) ==
  Sgn(a) * Sgn(b) *
    ((Abs(a) \div Abs(b)) * ONE + ((Abs(a) % Abs(b)) * ONE) \div Abs(b))

\* floor(x) and fract(x) = x - floor(x)
Floor(x) == (x \div ONE) * ONE

Fract(x) == x % ONE

RECURSIVE SqrtSearch(_, _, _)
SqrtSearch(n, lo, hi) ==
  IF hi - lo <= 1 THEN lo
  ELSE LET mid == (lo + hi) \div 2
       IN  IF mid * mid <= n THEN SqrtSearch(n, mid, hi)
                             ELSE SqrtSearch(n, lo, mid)

\* The integer square root of n >= 0.
ISqrt(n) == SqrtSearch(n, 0, 46341)

\* sqrt(x) of a fixed-point number.
Sqrt(x) == ISqrt(x * ONE)

\* mix(a, b, t) = a * (1 - t) + b * t
Mix(a, b, t) == Mul(a, ONE - t) + Mul(b, t)

\* smoothstep(e0, e1, x): t = clamp((x - e0) / (e1 - e0), 0, 1); t*t*(3 - 2t)
Smoothstep(e0, e1, x) ==
  LET t == Clamp(Div(x - e0, e1 - e0), 0, ONE)
  IN  Mul(Mul(t, t), 3 * ONE - 2 * t)

\* exp(-x) for 0 <= x <= 1, by its Taylor polynomial of degree 7.
ExpNeg(x) ==
  LET x2 == Mul(x, x)
      x3 == Mul(x2, x)
      x4 == Mul(x3, x)
      x5 == Mul(x4, x)
      x6 == Mul(x5, x)
      x7 == Mul(x6, x)
  IN  Max(0, ONE - x + x2 \div 2 - x3 \div 6 + x4 \div 24 - x5 \div 120
             + x6 \div 720 - x7 \div 5040)

PI == 3142

TWO_PI == 2 * PI

\* sin(x), by Bhaskara's rational approximation on [0, pi] and the
\* symmetries sin(x + pi) = -sin(x), sin(x + 2 pi) = sin(x).
Sin(x) ==
  LET y == x % TWO_PI
      neg == y > PI
      z == IF neg THEN y - PI ELSE y
      q == Mul(z, PI - z)
      v == Div(16 * q, 5 * Mul(PI, PI) - 4 * q)
  IN  IF neg THEN -v ELSE v

Cos(x) == Sin(x + PI \div 2)

\* atan(t) for 0 <= t <= 1: t * (pi/4 + 0.273 * (1 - t))
AtanUnit(t) == Mul(t, PI \div 4 + Mul(273, ONE - t))

\* atan2(y, x), by octant reduction onto AtanUnit; atan2(0, 0) = 0.
Atan2(y, x) ==
  LET ax == Abs(x)
      ay == Abs(y)
      a == IF ax = 0 /\ ay = 0 THEN 0
           ELSE IF ay <= ax THEN AtanUnit(Div(ay, ax))
           ELSE PI \div 2 - AtanUnit(Div(ax, ay))
      b == IF x < 0 THEN PI - a ELSE a
  IN  IF y < 0 THEN -b ELSE b

---------------------------------------------------------------------------
\* vec2f / vec3f

Dot(a, b) == Mul(a[1], b[1]) + Mul(a[2], b[2]) + Mul(a[3], b[3])

Cross(a, b) ==
  << Mul(a[2], b[3]) - Mul(a[3], b[2]),
     Mul(a[3], b[1]) - Mul(a[1], b[3]),
     Mul(a[1], b[2]) - Mul(a[2], b[1]) >>

Scale(a, k) == << Mul(a[1], k), Mul(a[2], k), Mul(a[3], k) >>

Add(a, b) == << a[1] + b[1], a[2] + b[2], a[3] + b[3] >>

Neg(a) == << -a[1], -a[2], -a[3] >>

\* length(v) = sqrt(dot(v, v)), the squares taken before any rounding.
Length(a) == ISqrt(a[1] * a[1] + a[2] * a[2] + a[3] * a[3])

\* let r2 = dot(pos, pos); let r = sqrt(r2): the radius the loop works with.
Radius(ps) == Sqrt(Dot(ps, ps))

\* normalize(v) = v / length(v)
Normalize(a) ==
  LET len == Length(a)
  IN  << Div(a[1], len), Div(a[2], len), Div(a[3], len) >>

Zero3 == << 0, 0, 0 >>

---------------------------------------------------------------------------
\* Noise core

\* hash(p) = fract(sin(dot(p, vec2f(12.9898, 78.233))) * 43758.5453)
Hash(p) ==
  Fract(Mul(43758545, Sin(Mul(p[1], 12990) + Mul(p[2], 78233))))

\* noise(x): value noise, the four corner hashes blended by u = f*f*(3 - 2f)
Noise(x) ==
  LET i == << Floor(x[1]), Floor(x[2]) >>
      f == << Fract(x[1]), Fract(x[2]) >>
      u == << Mul(Mul(f[1], f[1]), 3 * ONE - 2 * f[1]),
              Mul(Mul(f[2], f[2]), 3 * ONE - 2 * f[2]) >>
  IN  Mix(Mix(Hash(<< i[1], i[2] >>), Hash(<< i[1] + ONE, i[2] >>), u[1]),
          Mix(Hash(<< i[1], i[2] + ONE >>), Hash(<< i[1] + ONE, i[2] + ONE >>), u[1]),
          u[2])

\* pp = rot * pp * 2.0 + shift, rot = mat2x2f(cos .5, sin .5, -sin .5, cos .5)
FbmNext(pp) ==
  << 2 * (Mul(Cos(500), pp[1]) - Mul(Sin(500), pp[2])) + 100 * ONE,
     2 * (Mul(Sin(500), pp[1]) + Mul(Cos(500), pp[2])) + 100 * ONE >>

RECURSIVE FbmLoop(_, _, _, _)
FbmLoop(i, v, a, pp) ==
  IF i >= 5 THEN v
  ELSE FbmLoop(i + 1, v + Mul(a, Noise(pp)), a \div 2, FbmNext(pp))

\* fbm(p): five octaves, amplitude 0.5 halved each octave
Fbm(p) == FbmLoop(0, 0, ONE \div 2, p)

---------------------------------------------------------------------------
\* Physics helpers

\* blackbody(temp)
Blackbody(temp) ==
  LET t == Clamp(temp, 0, ONE)
  IN  << Min(3 * t, ONE) + Max(0, t - 500),
         Mul(Min(Mul(t, 1500), ONE), Smoothstep(100, 500, t)),
         Mul(Min(t \div 2, ONE), Smoothstep(400, 800, t)) + Max(0, t - 900) >>

\* pow(x, n) for a whole exponent n >= 0
RECURSIVE PowInt(_, _)
PowInt(x, n) ==
  IF n = 0 THEN ONE
  ELSE IF n % 2 = 1 THEN Mul(x, PowInt(x, n - 1))
  ELSE LET half == PowInt(x, n \div 2) IN Mul(half, half)

\* pow(x, 1.5) = x * sqrt(x)
Pow15(x) == Mul(x, Sqrt(x))

\* pow(x, 1.0 / 2.2) for x >= 0: the largest y with y^11 <= x^5
RECURSIVE GammaSearch(_, _, _)
GammaSearch(x5, lo, hi) ==
  IF hi - lo <= 1 THEN lo
  ELSE LET mid == (lo + hi) \div 2
       IN  IF PowInt(mid, 11) <= x5 THEN GammaSearch(x5, mid, hi)
                                    ELSE GammaSearch(x5, lo, mid)

PowGamma(x) == IF x <= 0 THEN 0 ELSE GammaSearch(PowInt(x, 5), 0, 2 * ONE)

---------------------------------------------------------------------------
\* fs_main: derived physics parameters

RS == 2 * ONE

M == ONE

\* A loop bound that lets the body run once more.
max_steps_inclusive == 120 + 1

max_steps == 120

accretion_max == 12 * ONE

\* let spin_a = clamp(params.spin, 0.0, 0.99)
SpinA(spin) == Clamp(spin, 0, 990)

\* let horizon_r = 1.0 + sqrt(1.0 - spin_a * spin_a)
HorizonRadius(a) == ONE + Sqrt(ONE - Mul(a, a))

\* let isco = 3.0 + sqrt(3.0 * (3.0 - 2.0 * spin_a))
Isco(a) == 3 * ONE + Sqrt(3 * (3 * ONE - 2 * a))

\* let accretion_min = isco * 0.9
AccretionMin(a) == Mul(Isco(a), 900)

\* The "Physics Parameters" of one invocation: the let-constants spin_a,
\* horizon_r, isco and accretion_min, computed once from the uniform record.
Physics(p) ==
  [spin_a |-> SpinA(p.spin),
   horizon_r |-> HorizonRadius(SpinA(p.spin)),
   isco |-> Isco(SpinA(p.spin)),
   accretion_min |-> AccretionMin(SpinA(p.spin))]

\* let disk_h = 0.05 + 0.01 * r * r * 0.1
disk_h(r) == 50 + Mul(Mul(Mul(10, r), r), 100)

---------------------------------------------------------------------------
\* fs_main: camera ray setup

\* rd = normalize(cam_dir * 1.5 + right * screen_uv.x + up * screen_uv.y)
CameraRay(p, uv) ==
  LET aspect == Div(p.resolution[1], p.resolution[2])
      ndc == << (uv[1] - 500) * 2, (uv[2] - 500) * 2 >>
      screen_uv == << Mul(ndc[1], aspect), -ndc[2] >>
      cam_dir == Normalize(p.camera_dir)
      world_up == << 0, ONE, 0 >>
      right == Normalize(Cross(cam_dir, world_up))
      up == Cross(right, cam_dir)
  IN  Normalize(Add(Add(Scale(cam_dir, 1500), Scale(right, screen_uv[1])),
                    Scale(up, screen_uv[2])))

---------------------------------------------------------------------------
\* fs_main: volumetric disk shader (one sample)

\* The disk trigger with the two radial bounds included.
InDiskInclusive(ph, ps, r, T) ==
  /\ T > 10
  /\ r >= ph.accretion_min
  /\ r <= accretion_max
  /\ Abs(ps[2]) < disk_h(r)

\* transmittance > 0.01 && r > accretion_min && r < accretion_max
\*   && dist_to_plane < disk_h
InDisk(ph, ps, r, T) ==
  /\ T > 10
  /\ r > ph.accretion_min
  /\ r < accretion_max
  /\ Abs(ps[2]) < disk_h(r)

\* let omega_space = 2.0 * spin_a * r / (pow(r2 + spin_a*spin_a, 2.0))
omega_space(ph, r, r2) ==
  LET d == r2 + Mul(ph.spin_a, ph.spin_a)
  IN  Div(Mul(2 * ph.spin_a, r), Mul(d, d))

\* A Keplerian angular velocity with sqrt(r) in the place of pow(r, 1.5).
omega_kepler_sqrt(ph, r) == Div(ONE, Sqrt(r) + ph.spin_a)

\* let omega_kepler = 1.0 / (pow(r, 1.5) + spin_a)
omega_kepler(ph, r) == Div(ONE, Pow15(r) + ph.spin_a)

\* A gas angular velocity with the frame dragging added to the Keplerian one.
omega_gas_dragged(ph, r) == omega_kepler(ph, r) + omega_space(ph, r, Mul(r, r))

\* let omega_gas = omega_kepler
omega_gas(ph, r) == omega_kepler(ph, r)

\* let vel_gas = vec3f(-pos.z, 0.0, pos.x) * omega_gas
vel_gas(ph, ps, r) == Scale(<< -ps[3], 0, ps[1] >>, omega_gas(ph, r))

\* The Doppler factor with the sign of the line-of-sight term reversed.
DopplerReversed(beta_sq, cos_theta) ==
  LET gamma == Div(ONE, Sqrt(ONE - beta_sq))
      beta == Sqrt(beta_sq)
  IN  Div(ONE, Mul(gamma, ONE + Mul(beta, cos_theta)))

\* let doppler = 1.0 / (gamma * (1.0 - beta * cos_theta)),
\* gamma = 1.0 / sqrt(1.0 - beta_sq), beta = sqrt(beta_sq)
Doppler(beta_sq, cos_theta) ==
  LET gamma == Div(ONE, Sqrt(ONE - beta_sq))
      beta == Sqrt(beta_sq)
  IN  Div(ONE, Mul(gamma, ONE - Mul(beta, cos_theta)))

\* let grav_redshift = sqrt(max(0.01, 1.0 - 2.0 / r))
grav_redshift(r) == Sqrt(Max(10, ONE - Div(2 * ONE, r)))

\* density = (noise_base * 0.7 + noise_detail * 0.3) * vertical_fade * radial_fade
Density(p, ph, ps, r) ==
  LET angle == Atan2(ps[3], ps[1])
      rot_angle == angle - Mul(Mul(p.time, omega_gas(ph, r)), 10 * ONE)
      uv_disk == << 2 * r, rot_angle >>
      noise_base == Fbm(<< 2 * uv_disk[1], 2 * uv_disk[2] >>)
      noise_detail == Fbm(<< 6 * uv_disk[1] + p.time, 6 * uv_disk[2] >>)
      vertical_fade == Smoothstep(disk_h(r), 0, Abs(ps[2]))
      radial_fade == Mul(Smoothstep(ph.accretion_min, ph.accretion_min + ONE, r),
                         Smoothstep(accretion_max, accretion_max - 2 * ONE, r))
  IN  Mul(Mul(Mul(noise_base, 700) + Mul(noise_detail, 300), vertical_fade),
          radial_fade)

\* A segment length with the floor 0.1 in the place of 0.01.
segment_len_floored(sd) == Max(100, sd)

\* let segment_len = max(0.01, step_dist)
segment_len(sd) == Max(10, sd)

\* An alpha that is 1 for every sample.
AlphaSaturated(density, sd) == ONE

\* let alpha = 1.0 - exp(-density * segment_len * 2.0)
Alpha(density, sd) == ONE - ExpNeg(2 * Mul(density, segment_len(sd)))

\* emission = blackbody(shifted_temp) * intensity * 2.0
Emission(p, ph, r, density, shift) ==
  LET temp_profile == Pow15(Div(ph.accretion_min, r))
      intensity == Mul(Mul(Mul(density, temp_profile), PowInt(shift, 4)),
                       p.disk_intensity)
      shifted_temp == Mul(temp_profile, shift)
  IN  Scale(Scale(Blackbody(shifted_temp), intensity), 2 * ONE)

\* Compositing that scales the transmittance by (1 + alpha).
CompositeBrightens(em, alpha, col, T) ==
  [color |-> Add(col, Scale(Scale(em, alpha), T)),
   transmittance |-> Mul(T, ONE + alpha), weight |-> Mul(alpha, T)]

\* Compositing that attenuates first and adds the emission afterwards.
CompositeAttenuatesFirst(em, alpha, col, T) ==
  [color |-> Add(col, Scale(Scale(em, alpha), Mul(T, ONE - alpha))),
   transmittance |-> Mul(T, ONE - alpha), weight |-> Mul(alpha, T)]

\* Compositing that takes only half of alpha off the transmittance.
CompositeHalfAttenuated(em, alpha, col, T) ==
  [color |-> Add(col, Scale(Scale(em, alpha), T)),
   transmittance |-> Mul(T, ONE - alpha \div 2), weight |-> Mul(alpha, T)]

\* color += emission * alpha * transmittance; transmittance *= (1.0 - alpha)
\* weight is alpha * transmittance, the factor the emission is added with.
Composite(em, alpha, col, T) ==
  [color |-> Add(col, Scale(Scale(em, alpha), T)),
   transmittance |-> Mul(T, ONE - alpha), weight |-> Mul(alpha, T)]

\* A disk stage that composites every sample, whatever its density.
DiskShadeNoThreshold(p, ph, ps, vl, r, col, T, sd) ==
  IF ~InDisk(ph, ps, r, T) THEN [color |-> col, transmittance |-> T, weight |-> 0]
  ELSE
    LET beta_vec == vel_gas(ph, ps, r)
        view_dir == Neg(Normalize(vl))
        beta_sq == Dot(beta_vec, beta_vec)
    IN  IF ~(beta_sq < 990) THEN [color |-> col, transmittance |-> T, weight |-> 0]
        ELSE
          LET cos_theta == Dot(Normalize(beta_vec), view_dir)
              shift == Mul(Doppler(beta_sq, cos_theta), grav_redshift(r))
              density == Density(p, ph, ps, r)
          IN  Composite(Emission(p, ph, r, density, shift),
                        Alpha(density, sd), col, T)

\* The body of "if (transmittance > 0.01 && r > accretion_min && ...)":
\* the accumulators after the disk stage of one loop iteration.
DiskShade(p, ph, ps, vl, r, col, T, sd) ==
  IF ~InDisk(ph, ps, r, T) THEN [color |-> col, transmittance |-> T, weight |-> 0]
  ELSE
    LET beta_vec == vel_gas(ph, ps, r)
        view_dir == Neg(Normalize(vl))
        beta_sq == Dot(beta_vec, beta_vec)
    IN  IF ~(beta_sq < 990) THEN [color |-> col, transmittance |-> T, weight |-> 0]
        ELSE
          LET cos_theta == Dot(Normalize(beta_vec), view_dir)
              shift == Mul(Doppler(beta_sq, cos_theta), grav_redshift(r))
              density == Density(p, ph, ps, r)
          IN  IF ~(density > 50) THEN [color |-> col, transmittance |-> T, weight |-> 0]
              ELSE Composite(Emission(p, ph, r, density, shift),
                             Alpha(density, sd), col, T)

---------------------------------------------------------------------------
\* fs_main: geodesic step

\* The step size with the two limits of the clamp exchanged.
StepSizeClampSwapped(ph, r) == Clamp(Mul(50, r - ph.horizon_r), 500, 20)

\* let h = clamp(0.05 * (r - horizon_r), 0.02, 0.5)
StepSize(ph, r) == Clamp(Mul(50, r - ph.horizon_r), 20, 500)

\* x / pow(r, 5.0): r^5 does not fit the integers of the model checker, so the
\* quotient is taken by r five times over.
DivR5(x, r) == Div(Div(Div(Div(Div(x, r), r), r), r), r)

\* let acc_schwarzschild = -1.5 * RS * (rv_dot * rv_dot) / (pow(r, 5.0)) * pos
acc_schwarzschild(ps, vl, r) ==
  LET rv_dot == Dot(ps, vl)
  IN  Scale(ps, DivR5(Mul(Mul(-1500, RS), Mul(rv_dot, rv_dot)), r))

\* The spin term for the spin value s:
\*   if (s > 0.01) { J = vec3f(0, 1, 0) * s * M;
\*     curl_field = (3.0 * dot(pos, J) * pos - r2 * J) / pow(r, 5.0);
\*     acc_spin = 2.0 * cross(vel, curl_field) }
SpinAcc(s, ps, vl, r, r2) ==
  IF ~(s > 10) THEN Zero3
  ELSE
    LET J == Scale(Scale(<< 0, ONE, 0 >>, s), M)
        num == Add(Scale(ps, 3 * Dot(ps, J)), Neg(Scale(J, r2)))
        curl_field == << DivR5(num[1], r), DivR5(num[2], r), DivR5(num[3], r) >>
    IN  Scale(Cross(vl, curl_field), 2 * ONE)

\* The spin value the spin term reads: "if (params.spin > 0.01)",
\* "J = vec3f(0.0, 1.0, 0.0) * params.spin * M"
SpinOfAcc(p) == p.spin

\* var acc_spin
acc_spin(p, ps, vl, r, r2) == SpinAcc(SpinOfAcc(p), ps, vl, r, r2)

\* let acc_total = acc_schwarzschild + acc_spin
acc_total(p, ps, vl, r, r2) ==
  Add(acc_schwarzschild(ps, vl, r), acc_spin(p, ps, vl, r, r2))

\* The velocity update without the test of the lensing flag.
NextVelAlwaysBent(p, ps, vl, r, r2, h) ==
  Normalize(Add(vl, Scale(acc_total(p, ps, vl, r, r2), h)))

\* if (params.lensing_enabled > 0.5) { vel += acc_total * h; vel = normalize(vel) }
NextVel(p, ps, vl, r, r2, h) ==
  IF p.lensing_enabled > 500
    THEN Normalize(Add(vl, Scale(acc_total(p, ps, vl, r, r2), h)))
    ELSE vl

---------------------------------------------------------------------------
\* fs_main: background and tone mapping

Mix3(a, b, t) == << Mix(a[1], b[1], t), Mix(a[2], b[2], t), Mix(a[3], b[3], t) >>

\* let bg = vec3f(stars) + galaxy_final
BackgroundColor(p, vl) ==
  LET sky_dir == Normalize(vl)
      u == Atan2(sky_dir[3], sky_dir[1])
      v == sky_dir[2]
      star_layer1 == Mul(PowInt(Max(0, Noise(<< 150 * u, 150 * v >>)), 40), 1500)
      star_layer2 == Mul(PowInt(Max(0, Noise(<< 60 * u + 5 * ONE, 60 * v + 5 * ONE >>)), 50),
                         2 * ONE)
      stars == star_layer1 + star_layer2
      warp == Fbm(<< 3 * u, 3 * v + Mul(p.time, 10) >>)
      galactic_plane_dist == Abs(v + Mul(warp, 100))
      galaxy_density == Div(ONE, ONE + 8 * galactic_plane_dist)
      neb_noise == Fbm(<< 5 * u + warp, 2 * v + warp >>)
      neb_detail == Fbm(<< 10 * u - Mul(p.time, 20), 5 * v - Mul(p.time, 20) >>)
      deep_purple == << 100, 0, 200 >>
      cosmic_blue == << 100, 200, 500 >>
      core_glow == << 1000, 800, 600 >>
      col1 == Mix3(deep_purple, cosmic_blue, neb_noise)
      col2 == Mix3(col1, core_glow,
                   Mul(Mul(galaxy_density, neb_detail), galaxy_density))
      dust == Fbm(<< 12 * u + 100 * ONE, 12 * v + 100 * ONE >>)
      dust_mask == Smoothstep(400, 700, dust)
      galaxy_col == Scale(col2, ONE - Mul(Mul(dust_mask, 800), galaxy_density))
      galaxy_final == Scale(Scale(galaxy_col, galaxy_density), 2 * ONE)
  IN  Add(<< stars, stars, stars >>, galaxy_final)

\* The Uncharted 2 curve of one channel, before the division by white:
\* ((x * (A * x + C * B) + D * E) / (x * (A * x + B) + D * F)) - E / F
Filmic(x) ==
  LET A == 150
      B == 500
      C == 100
      D == 200
      E == 20
      F == 300
  IN  Div(Mul(x, Mul(A, x) + Mul(C, B)) + Mul(D, E),
          Mul(x, Mul(A, x) + B) + Mul(D, F)) - Div(E, F)

\* final_col of one channel: pow(tonemapped / white, 1.0 / 2.2), exposed = color * 1.5
ToneMapChannel(c) ==
  LET exposed == Mul(c, 1500)
      W == 11200
  IN  PowGamma(Div(Filmic(exposed), Filmic(W)))

ToneMap(col) == << ToneMapChannel(col[1]), ToneMapChannel(col[2]), ToneMapChannel(col[3]) >>

---------------------------------------------------------------------------
\* The state of the harness: App, ControlPanel and WebGPURenderer

VARIABLES
  screen,           \* what App shows: "none" (not mounted yet), "renderer",
                    \*   "error" (ErrorDisplay), "gone" (torn down)
  displayed,        \* the message prop of ErrorDisplay
  errorMessage,     \* App: useState<string | null>(null)
  appParams,        \* App: useState<SimulationParams>
  paramsVersion,    \* the number of setParams calls so far
  isDragging,       \* App: useState(false)
  lastMousePos,     \* App: useState({ x: 0, y: 0 })
  active,           \* init effect: let active
  pcInit,           \* where init() is: "idle", "adapter", "device", "done"
  canvasRef,        \* the refs of WebGPURenderer: TRUE when not null
  deviceRef,
  contextRef,
  pipelineRef,
  uniformBufferRef,
  bindGroupRef,
  lostArmed,        \* device.lost.then(...) registered and not yet resolved
  compilePending,   \* getCompilationInfo().then(...) registered, not yet resolved
  requestRef,       \* requestRef.current
  rafQueue,         \* the pending animation-frame callbacks
  nextRaf,          \* the next handle of requestAnimationFrame
  rendered,         \* what the last commit of App rendered with: the params
                    \*   (and their version) and the lastMousePos that the
                    \*   handlers and the render effect closed over
  uniformBuffer,    \* what writeBuffer last wrote
  frames,           \* the frames handed to device.queue.submit, in order
  frameCountRef,    \* frameCountRef.current
  lastFpsTimeRef,   \* lastFpsTimeRef.current, on the clock
  clock,            \* Date.now() - startTimeRef.current, in seconds
  failed,           \* the latest failure that happened while the renderer
                    \*   was active: its kind, or NULL
  cleanupPending    \* the renderer is unmounted, its effect cleanups are due

hvars == << screen, displayed, errorMessage, appParams, paramsVersion,
            isDragging, lastMousePos, active, pcInit, canvasRef, deviceRef,
            contextRef, pipelineRef, uniformBufferRef, bindGroupRef, lostArmed,
            compilePending, requestRef, rafQueue, nextRaf, rendered,
            uniformBuffer, frames, frameCountRef, lastFpsTimeRef, clock,
            failed, cleanupPending >>

---------------------------------------------------------------------------
\* The kernel as a state machine: one pixel's invocation of fs_main

VARIABLES
  params,         \* the uniform record (FrameParameters)
  uv,             \* the pixel's interpolated uv
  phys,           \* the let-constants spin_a, horizon_r, isco, accretion_min
  pos,            \* var pos
  vel,            \* var vel
  color,          \* var color
  transmittance,  \* var transmittance
  step_dist,      \* var step_dist
  i,              \* the loop counter
  pc,             \* "loop", "background", "tonemap", "done"
  outcome,        \* how the loop was left; "MARCHING" while it runs
  final_col,      \* the fragment's output colour
  travel,         \* the sum of the step sizes h taken so far
  weight          \* the sum of alpha * transmittance over the samples shaded
                  \*   so far: the total factor given to disk emission

kvars == << params, uv, phys, pos, vel, color, transmittance, step_dist, i, pc,
            outcome, final_col, travel, weight >>

\* The helper functions of the shader, evaluated on their own
VARIABLES
  fn,             \* the function under evaluation, "none" when there is none
  fnArg,          \* its arguments
  fnRes           \* its results, << >> until it is evaluated

nvars == << fn, fnArg, fnRes >>

\* Pixels per axis minus one: uv ranges over the grid k / UVGrid.
UVGrid == 2

\* The largest uniform time, in seconds.
MaxTime == 1

\* Camera poses (camera_pos, camera_dir) of the uniform record.
Cameras ==
  { << << 15000, 0, 0 >>, << -1000, 0, 0 >> >>,      \* in the disk plane, inward
    << << 0, 2500, 0 >>, << 1000, 0, 0 >> >>,        \* grazing, above the pole
    << << 25000, 0, 0 >>, << 1000, 0, 0 >> >>,       \* r = 25, outward
    << << 1000, 0, 0 >>, << 1000, 0, 0 >> >>,        \* inside every horizon
    << << 5985, 424, 0 >>, << -998, -71, 0 >> >> }   \* App's initial orbit camera

SpinInputs == { -500, 0, 900, 1000 }

\* The disk intensities: the default, the slider's minimum, and a brighter
\* disk.
DiskIntensities == { 0, ONE, 2 * ONE }

FrameInputs ==
  [ time : { t * ONE : t \in 0..MaxTime },
    spin : SpinInputs,
    disk_intensity : DiskIntensities,
    lensing_enabled : { 0, ONE },
    resolution : { << 2 * ONE, ONE >> },
    camera_pos : { c[1] : c \in Cameras },
    camera_dir : { c[2] : c \in Cameras } ]

\* The pixels of the middle row and of the middle column of the grid.
Pixels ==
  { << (a * ONE) \div UVGrid, (b * ONE) \div UVGrid >> :
      a, b \in 0..UVGrid } \
  { << (a * ONE) \div UVGrid, (b * ONE) \div UVGrid >> :
      a, b \in (0..UVGrid) \ { UVGrid \div 2 } }

\* An invocation whose accumulator may hold what another invocation left in it.
KernelInitCarried ==
  /\ params \in { f \in FrameInputs :
                     /\ << f.camera_pos, f.camera_dir >> \in Cameras
                     /\ f.disk_intensity = ONE \/ (f.spin = 900 /\ f.time = 0) }
  /\ uv \in Pixels
  /\ phys = Physics(params)
  /\ pos = params.camera_pos
  /\ vel = CameraRay(params, uv)
  /\ color \in { Zero3, << 100, 100, 100 >> }
  /\ transmittance = ONE
  /\ step_dist = 0
  /\ i = 0
  /\ pc = "loop"
  /\ outcome = "MARCHING"
  /\ final_col = Zero3
  /\ travel = 0
  /\ weight = 0

\* fs_main up to "var step_dist = 0.0"
KernelInit ==
  /\ params \in { f \in FrameInputs :
                     /\ << f.camera_pos, f.camera_dir >> \in Cameras
                     /\ f.disk_intensity = ONE \/ (f.spin = 900 /\ f.time = 0) }
  /\ uv \in Pixels
  /\ phys = Physics(params)
  /\ pos = params.camera_pos
  /\ vel = CameraRay(params, uv)
  /\ color = Zero3
  /\ transmittance = ONE
  /\ step_dist = 0
  /\ i = 0
  /\ pc = "loop"
  /\ outcome = "MARCHING"
  /\ final_col = Zero3
  /\ travel = 0
  /\ weight = 0

\* if (r < horizon_r)
Absorbed(ph, r) == r < ph.horizon_r

\* Absorption that leaves the transmittance as it is.
AbsorbKeepsTransmittance(col, T) ==
  [color |-> Add(col, Scale(Zero3, T)), transmittance |-> T]

\* Absorption that blacks the accumulated color out.
AbsorbClearsColor(col, T) == [color |-> Zero3, transmittance |-> 0]

\* color += vec3f(0.0) * transmittance; transmittance = 0.0; break
Absorb(col, T) ==
  [color |-> Add(col, Scale(Zero3, T)), transmittance |-> 0]

\* The opacity break at one half instead of one hundredth.
OpaqueBelowHalf(T) == T < 500

\* if (transmittance < 0.01) break
Opaque(T) == T < 10

\* if (r > 30.0) break
Escaped(r) == r > 30 * ONE

\* One pass through the body of "for (var i = 0; i < max_steps; i++)".
Iterate ==
  /\ pc = "loop"
  /\ i < max_steps
  /\ LET r2 == Dot(pos, pos)
         r == Sqrt(r2)
     IN  IF Absorbed(phys, r)
         THEN /\ color' = Absorb(color, transmittance).color
              /\ transmittance' = Absorb(color, transmittance).transmittance
              /\ outcome' = "ABSORBED"
              /\ pc' = "background"
              /\ UNCHANGED << pos, vel, step_dist, i, travel, weight >>
         ELSE
           LET acc == DiskShade(params, phys, pos, vel, r, color, transmittance,
                                  step_dist)
           IN  /\ color' = acc.color
               /\ transmittance' = acc.transmittance
               /\ weight' = weight + acc.weight
               /\ IF Opaque(acc.transmittance)
                  THEN /\ outcome' = "OPAQUE"
                       /\ pc' = "background"
                       /\ UNCHANGED << pos, vel, step_dist, i, travel >>
                  ELSE
                    LET h == StepSize(phys, r)
                        v1 == NextVel(params, pos, vel, r, r2, h)
                    IN  /\ step_dist' = h
                        /\ vel' = v1
                        /\ pos' = Add(pos, Scale(v1, h))
                        /\ travel' = travel + h
                        /\ IF Escaped(r)
                           THEN /\ outcome' = "ESCAPED"
                                /\ pc' = "background"
                                /\ i' = i
                           ELSE /\ outcome' = outcome
                                /\ pc' = pc
                                /\ i' = i + 1
  /\ UNCHANGED << params, uv, phys, final_col >>
  /\ UNCHANGED << hvars, nvars >>

\* The loop condition i < max_steps fails.
StepLimit ==
  /\ pc = "loop"
  /\ ~(i < max_steps)
  /\ outcome' = "STEP_LIMIT"
  /\ pc' = "background"
  /\ UNCHANGED << params, uv, phys, pos, vel, color, transmittance, step_dist, i,
                  final_col, travel, weight >>
  /\ UNCHANGED << hvars, nvars >>

\* A background stage that gives the sky to escaped rays only.
BackgroundOnlyEscaped ==
  /\ pc = "background"
  /\ color' = IF transmittance > 0 /\ outcome = "ESCAPED"
                THEN Add(color, Scale(BackgroundColor(params, vel), transmittance))
                ELSE color
  /\ pc' = "tonemap"
  /\ UNCHANGED << params, uv, phys, pos, vel, transmittance, step_dist, i, outcome,
                  final_col, travel, weight >>
  /\ UNCHANGED << hvars, nvars >>

\* if (transmittance > 0.0) { ... color += bg * transmittance }
Background ==
  /\ pc = "background"
  /\ color' = IF transmittance > 0
                THEN Add(color, Scale(BackgroundColor(params, vel), transmittance))
                ELSE color
  /\ pc' = "tonemap"
  /\ UNCHANGED << params, uv, phys, pos, vel, transmittance, step_dist, i, outcome,
                  final_col, travel, weight >>
  /\ UNCHANGED << hvars, nvars >>

\* Tone mapping and gamma; return vec4f(final_col, 1.0)
ToneMapping ==
  /\ pc = "tonemap"
  /\ final_col' = ToneMap(color)
  /\ pc' = "done"
  /\ UNCHANGED << params, uv, phys, pos, vel, color, transmittance, step_dist, i,
                  outcome, travel, weight >>
  /\ UNCHANGED << hvars, nvars >>

KernelNext == Iterate \/ StepLimit \/ Background \/ ToneMapping

---------------------------------------------------------------------------
\* fs_main as a function of its inputs

\* The ray-marching loop from iteration n on: the accumulators and the
\* direction with which the ray leaves the loop.
RECURSIVE MarchFrom(_, _, _, _, _, _, _, _)
MarchFrom(p, ph, ps, vl, col, T, sd, n) ==
  IF ~(n < max_steps) THEN [color |-> col, transmittance |-> T, vel |-> vl]
  ELSE
    LET r2 == Dot(ps, ps)
        r == Sqrt(r2)
    IN  IF Absorbed(ph, r)
        THEN [color |-> Absorb(col, T).color,
              transmittance |-> Absorb(col, T).transmittance, vel |-> vl]
        ELSE
          LET acc == DiskShade(p, ph, ps, vl, r, col, T, sd)
          IN  IF Opaque(acc.transmittance)
              THEN [color |-> acc.color, transmittance |-> acc.transmittance,
                    vel |-> vl]
              ELSE
                LET h == StepSize(ph, r)
                    v1 == NextVel(p, ps, vl, r, r2, h)
                IN  IF Escaped(r)
                    THEN [color |-> acc.color,
                          transmittance |-> acc.transmittance, vel |-> v1]
                    ELSE MarchFrom(p, ph, Add(ps, Scale(v1, h)), v1, acc.color,
                                   acc.transmittance, h, n + 1)

\* fs_main(uv) under the uniform p: the returned rgb.
fs_main(p, u) ==
  LET m == MarchFrom(p, Physics(p), p.camera_pos, CameraRay(p, u), Zero3,
                     ONE, 0, 0)
  IN  ToneMap(IF m.transmittance > 0
                THEN Add(m.color, Scale(BackgroundColor(p, m.vel),
                                        m.transmittance))
                ELSE m.color)

---------------------------------------------------------------------------
\* The helper functions as a state machine: one evaluation of one function

\* The unit of the finer arithmetic in which the horizon radius is evaluated
\* on its own: 1.0 is FINE, so that the slider's step 0.01 and its square
\* are both whole numbers of steps.
FINE == 10 * ONE

\* The inner root 1 - sqrt(1 - a^2) in the place of the outer one.
HorizonRadiusInner(a) == FINE - ISqrt((FINE - (a * a) \div FINE) * FINE)

\* let horizon_r = 1.0 + sqrt(1.0 - spin_a * spin_a), in units of 1 / FINE
HorizonRadiusFine(a) == FINE + ISqrt((FINE - (a * a) \div FINE) * FINE)

\* The spins of the slider (min 0, max 1.0, step 0.01) after
\* clamp(params.spin, 0.0, 0.99), in units of 1 / FINE.
SliderSpins == { k * (FINE \div 100) : k \in 0..99 }

\* The pairs of such spins a < b.
SpinPairs == { << a, b >> \in SliderSpins \X SliderSpins : a < b }

\* The beta_sq that pass "if (beta_sq < 0.99)", zero left out, with the gas
\* moving straight toward the viewer and straight away from it.
DopplerArgs == { b \in 0..ONE : 0 < b /\ b < 990 } \X { ONE, -ONE }

\* Positions half a unit apart in x and z and a twentieth apart in y, out to
\* accretion_max.
DiskGridAxis ==
  { k * (ONE \div 2) : k \in -(accretion_max \div (ONE \div 2))
                              ..(accretion_max \div (ONE \div 2)) }

DiskGridPositions == DiskGridAxis \X { -100, -50, 0, 50, 100 } \X DiskGridAxis

\* A spin of the uniform record and a position that satisfies the disk trigger
\* under it, with the transmittance still 1.
GasArgs ==
  { a \in SpinInputs \X DiskGridPositions :
      InDisk(Physics([spin |-> a[1]]), a[2], Radius(a[2]), ONE) }

NumericInit ==
  /\ fnRes = << >>
  /\ \/ fn = "horizon_r" /\ fnArg \in SpinPairs
     \/ fn = "doppler" /\ fnArg \in DopplerArgs
     \/ fn = "beta_sq" /\ fnArg \in GasArgs

\* let horizon_r = 1.0 + sqrt(1.0 - spin_a * spin_a), for both spins of a pair
EvalHorizonRadius ==
  /\ fn = "horizon_r"
  /\ fnRes = << >>
  /\ fnRes' = << HorizonRadiusFine(fnArg[1]), HorizonRadiusFine(fnArg[2]) >>
  /\ UNCHANGED << fn, fnArg >>
  /\ UNCHANGED << kvars, hvars >>

\* let doppler = 1.0 / (gamma * (1.0 - beta * cos_theta))
EvalDoppler ==
  /\ fn = "doppler"
  /\ fnRes = << >>
  /\ fnRes' = << Doppler(fnArg[1], fnArg[2]) >>
  /\ UNCHANGED << fn, fnArg >>
  /\ UNCHANGED << kvars, hvars >>

\* let beta_sq = dot(beta_vec, beta_vec), beta_vec = vel_gas
EvalBetaSq ==
  /\ fn = "beta_sq"
  /\ fnRes = << >>
  /\ LET beta_vec == vel_gas(Physics([spin |-> fnArg[1]]), fnArg[2],
                             Radius(fnArg[2]))
     IN  fnRes' = << Dot(beta_vec, beta_vec) >>
  /\ UNCHANGED << fn, fnArg >>
  /\ UNCHANGED << kvars, hvars >>

NumericNext == EvalHorizonRadius \/ EvalDoppler \/ EvalBetaSq

---------------------------------------------------------------------------
\* The harness: App, ControlPanel and WebGPURenderer

NULL == "null"

\* The cap on requestAnimationFrame handles (the render loop never ends).
MaxRaf == 4

\* The cap on setParams calls.
MaxParamChanges == 1

\* The cap on the entries of GPUCompilationInfo.messages.
MaxMessages == 1

\* useState<SimulationParams>({ spin: 0.90, diskIntensity: 1.0, ... })
InitialParams ==
  [spin |-> 900, diskIntensity |-> ONE, gravitationalLensing |-> ONE,
   zoom |-> 6 * ONE, cameraAngle |-> 0, cameraHeight |-> 1500]

\* The uniform record the render callback packs from its params and the clock.
Uniform(prm, time) ==
  LET r == prm.zoom
      theta == prm.cameraAngle
      phi == Max(10, Min(PI - 10, prm.cameraHeight))
      cx == Mul(Mul(r, Sin(phi)), Cos(theta))
      cy == Mul(r, Cos(phi))
      cz == Mul(Mul(r, Sin(phi)), Sin(theta))
      len == Length(<< cx, cy, cz >>)
  IN  [time |-> time,
       spin |-> prm.spin,
       disk_intensity |-> prm.diskIntensity,
       lensing_enabled |-> prm.gravitationalLensing,
       resolution |-> << 300 * ONE, 150 * ONE >>,
       camera_pos |-> << cx, cy, cz >>,
       camera_dir |-> << Div(-cx, len), Div(-cy, len), Div(-cz, len) >>,
       camera_up |-> << 0, ONE, 0 >>]

HarnessInit ==
  /\ screen = "none"
  /\ displayed = NULL
  /\ errorMessage = NULL
  /\ appParams = InitialParams
  /\ paramsVersion = 0
  /\ isDragging = FALSE
  /\ lastMousePos = << 0, 0 >>
  /\ active = FALSE
  /\ pcInit = "idle"
  /\ canvasRef = FALSE
  /\ deviceRef = FALSE
  /\ contextRef = FALSE
  /\ pipelineRef = FALSE
  /\ uniformBufferRef = FALSE
  /\ bindGroupRef = FALSE
  /\ lostArmed = FALSE
  /\ compilePending = FALSE
  /\ requestRef = 0
  /\ rafQueue = {}
  /\ nextRaf = 1
  /\ rendered = [params |-> InitialParams, version |-> 0,
                 lastMousePos |-> << 0, 0 >>]
  /\ uniformBuffer = NULL
  /\ frames = << >>
  /\ frameCountRef = 0
  /\ lastFpsTimeRef = 0
  /\ clock = 0
  /\ failed = NULL
  /\ cleanupPending = FALSE

\* A failure path that reports to App whether or not the effect is active.
SetErrorAlways(msg) == msg

\* A failure path that reports nothing to App.
SetErrorSilently(msg) == errorMessage

\* if (active) setErrorMessage(msg): the next value of App's errorMessage.
SetErrorIfActive(msg) == IF active THEN msg ELSE errorMessage

\* The latest failure seen while active, after one of this kind.
Note(kind) == IF active THEN kind ELSE failed

\* A request by a render closure that still holds the params of the mount.
RequestStale(prm, version) ==
  [id |-> nextRaf, params |-> InitialParams, version |-> 0]

\* requestAnimationFrame(render) by a render closure over (prm, version).
Request(prm, version) == [id |-> nextRaf, params |-> prm, version |-> version]

\* A cleanup that cancels the request of the mount, whatever requestRef holds.
CancelFirstRequest(q) == { c \in q : c.id # 1 }

\* A cleanup that cancels nothing.
CancelNothing(q) == q

\* cancelAnimationFrame(requestRef.current), guarded by "if (requestRef.current)"
CancelPending(q) == IF requestRef # 0 THEN { c \in q : c.id # requestRef } ELSE q

\* The first commit: App renders WebGPURenderer, then both effects run.
\* init() runs to its first await; the render effect requests a frame.
Mount ==
  /\ screen = "none"
  /\ screen' = "renderer"
  /\ canvasRef' = TRUE
  /\ active' = TRUE
  /\ \E gpu \in BOOLEAN :
       IF ~gpu
         THEN \* if (!navigator.gpu) { if (active) setErrorMessage(...); return; }
              /\ errorMessage' = "WebGPU is not supported in this browser."
              /\ failed' = "no_gpu"
              /\ pcInit' = "done"
         ELSE \* await navigator.gpu.requestAdapter(...)
              /\ pcInit' = "adapter"
              /\ UNCHANGED << errorMessage, failed >>
  /\ requestRef' = nextRaf
  /\ rafQueue' = { Request(appParams, paramsVersion) }
  /\ nextRaf' = nextRaf + 1
  /\ UNCHANGED << displayed, appParams, paramsVersion, isDragging, lastMousePos,
                  deviceRef, contextRef, pipelineRef, uniformBufferRef,
                  bindGroupRef, lostArmed, compilePending, rendered,
                  uniformBuffer, frames, frameCountRef, lastFpsTimeRef, clock >>
  /\ UNCHANGED cleanupPending
  /\ UNCHANGED << kvars, nvars >>

\* requestAdapter settles: rejected (the catch block), null, or an adapter.
AdapterResolved ==
  /\ pcInit = "adapter"
  /\ \E res \in { "adapter", "null", "reject" } :
       CASE res = "reject" ->
              /\ errorMessage' = SetErrorIfActive("Initialization Failed")
              /\ failed' = Note("exception")
              /\ pcInit' = "done"
         [] res = "null" ->
              /\ errorMessage' = SetErrorIfActive("No WebGPU adapter found.")
              /\ failed' = Note("no_adapter")
              /\ pcInit' = "done"
         [] OTHER ->
              /\ pcInit' = "device"
              /\ UNCHANGED << errorMessage, failed >>
  /\ UNCHANGED << screen, displayed, appParams, paramsVersion, isDragging,
                  lastMousePos, active, canvasRef, deviceRef, contextRef,
                  pipelineRef, uniformBufferRef, bindGroupRef, lostArmed,
                  compilePending, requestRef, rafQueue, nextRaf, rendered,
                  uniformBuffer, frames, frameCountRef, lastFpsTimeRef, clock >>
  /\ UNCHANGED cleanupPending
  /\ UNCHANGED << kvars, nvars >>

\* How far the synchronous rest of init() gets once the device is there.
InitEnds == { "complete", "context_null", "throw_getContext", "throw_configure",
              "throw_pipeline", "throw_bindGroup" }

\* requestDevice settles, and init() runs on to its end.
DeviceResolved ==
  /\ pcInit = "device"
  /\ pcInit' = "done"
  /\ \E res \in { "device", "reject" }, end \in InitEnds, info \in BOOLEAN :
       IF res = "reject"
         THEN /\ errorMessage' = SetErrorIfActive("Initialization Failed")
              /\ failed' = Note("exception")
              /\ UNCHANGED << deviceRef, contextRef, pipelineRef, uniformBufferRef,
                              bindGroupRef, lostArmed, compilePending >>
       ELSE IF ~active
         THEN \* if (!active) return;
              UNCHANGED << errorMessage, failed, deviceRef, contextRef,
                           pipelineRef, uniformBufferRef, bindGroupRef,
                           lostArmed, compilePending >>
       ELSE IF ~canvasRef
         THEN \* deviceRef.current = device; device.lost.then(...);
              \* if (!canvas) return;
              /\ deviceRef' = TRUE
              /\ lostArmed' = TRUE
              /\ UNCHANGED << errorMessage, failed, contextRef, pipelineRef,
                              uniformBufferRef, bindGroupRef, compilePending >>
       ELSE
         /\ deviceRef' = TRUE
         /\ lostArmed' = TRUE
         /\ contextRef' = (end \notin { "context_null", "throw_getContext" })
         /\ compilePending' =
              (info /\ end \in { "complete", "throw_pipeline", "throw_bindGroup" })
         /\ uniformBufferRef' =
              (end \in { "complete", "throw_pipeline", "throw_bindGroup" })
         /\ pipelineRef' = (end \in { "complete", "throw_bindGroup" })
         /\ bindGroupRef' = (end = "complete")
         /\ errorMessage' =
              CASE end = "complete" -> errorMessage
                [] end = "context_null" ->
                     SetErrorIfActive("Could not acquire WebGPU context.")
                [] OTHER -> SetErrorIfActive("Initialization Failed")
         /\ failed' =
              CASE end = "complete" -> failed
                [] end = "context_null" -> Note("no_context")
                [] OTHER -> Note("exception")
  /\ UNCHANGED << screen, displayed, appParams, paramsVersion, isDragging,
                  lastMousePos, active, canvasRef, requestRef, rafQueue, nextRaf,
                  rendered, uniformBuffer, frames, frameCountRef, lastFpsTimeRef, clock >>
  /\ UNCHANGED cleanupPending
  /\ UNCHANGED << kvars, nvars >>

MessageTypes == { "error", "warning", "info" }

\* getCompilationInfo() resolves: every message of type 'error' is reported.
CompilationInfo ==
  /\ compilePending
  /\ compilePending' = FALSE
  /\ \E n \in 0..MaxMessages : \E messages \in [1..n -> MessageTypes] :
       IF \E k \in 1..n : messages[k] = "error"
         THEN /\ errorMessage' = SetErrorIfActive("Shader compilation failed")
              /\ failed' = Note("shader")
         ELSE UNCHANGED << errorMessage, failed >>
  /\ UNCHANGED << screen, displayed, appParams, paramsVersion, isDragging,
                  lastMousePos, active, pcInit, canvasRef, deviceRef, contextRef,
                  pipelineRef, uniformBufferRef, bindGroupRef, lostArmed,
                  requestRef, rafQueue, nextRaf, rendered, uniformBuffer, frames,
                  frameCountRef, lastFpsTimeRef, clock >>
  /\ UNCHANGED cleanupPending
  /\ UNCHANGED << kvars, nvars >>

\* device.lost resolves.
DeviceLost ==
  /\ lostArmed
  /\ lostArmed' = FALSE
  /\ errorMessage' = SetErrorIfActive("WebGPU device lost")
  /\ failed' = Note("device_lost")
  /\ UNCHANGED << screen, displayed, appParams, paramsVersion, isDragging,
                  lastMousePos, active, pcInit, canvasRef, deviceRef, contextRef,
                  pipelineRef, uniformBufferRef, bindGroupRef, compilePending,
                  requestRef, rafQueue, nextRaf, rendered, uniformBuffer, frames,
                  frameCountRef, lastFpsTimeRef, clock >>
  /\ UNCHANGED cleanupPending
  /\ UNCHANGED << kvars, nvars >>

\* What the clocks read when a render callback looks at them, in seconds
\* since startTimeRef.current.
ClockReadings == { 0, 1 }

\* A render callback that draws as soon as the device is stored.
RenderCallbackDeviceOnly ==
  /\ nextRaf <= MaxRaf
  /\ \E c \in rafQueue :
       /\ IF ~deviceRef \/ ~canvasRef
            THEN \* not initialised yet: only requestAnimationFrame(render)
                 UNCHANGED << uniformBuffer, frames, frameCountRef,
                              lastFpsTimeRef, clock >>
            ELSE \* count the frame, pack the uniforms from the closure's
                 \* params, writeBuffer, encode the pass, queue.submit
                 \E now \in { t \in ClockReadings : t >= clock } :
                   /\ clock' = now
                   /\ IF now - lastFpsTimeRef >= 1
                        THEN frameCountRef' = 0 /\ lastFpsTimeRef' = now
                        ELSE frameCountRef' = frameCountRef + 1
                             /\ lastFpsTimeRef' = lastFpsTimeRef
                   /\ uniformBuffer' = Uniform(c.params, now * ONE)
                   /\ frames' = Append(frames,
                                       [uniform |-> Uniform(c.params, now * ONE),
                                        version |-> c.version])
       /\ requestRef' = nextRaf
       /\ rafQueue' = (rafQueue \ { c }) \cup { Request(c.params, c.version) }
       /\ nextRaf' = nextRaf + 1
  /\ UNCHANGED << screen, displayed, errorMessage, appParams, paramsVersion,
                  isDragging, lastMousePos, active, pcInit, canvasRef, deviceRef,
                  contextRef, pipelineRef, uniformBufferRef, bindGroupRef,
                  lostArmed, compilePending, rendered, failed >>
  /\ UNCHANGED cleanupPending
  /\ UNCHANGED << kvars, nvars >>

\* An animation frame: the browser runs one pending render callback.  The
\* callback reads the clocks (performance.now(), Date.now()), which have
\* moved on by any amount since they were last read.
RenderCallback ==
  /\ nextRaf <= MaxRaf
  /\ \E c \in rafQueue :
       /\ IF ~deviceRef \/ ~contextRef \/ ~pipelineRef \/ ~uniformBufferRef
               \/ ~bindGroupRef \/ ~canvasRef
            THEN \* not initialised yet: only requestAnimationFrame(render)
                 UNCHANGED << uniformBuffer, frames, frameCountRef,
                              lastFpsTimeRef, clock >>
            ELSE \* count the frame, pack the uniforms from the closure's
                 \* params, writeBuffer, encode the pass, queue.submit
                 \E now \in { t \in ClockReadings : t >= clock } :
                   /\ clock' = now
                   /\ IF now - lastFpsTimeRef >= 1
                        THEN frameCountRef' = 0 /\ lastFpsTimeRef' = now
                        ELSE frameCountRef' = frameCountRef + 1
                             /\ lastFpsTimeRef' = lastFpsTimeRef
                   /\ uniformBuffer' = Uniform(c.params, now * ONE)
                   /\ frames' = Append(frames,
                                       [uniform |-> Uniform(c.params, now * ONE),
                                        version |-> c.version])
       /\ requestRef' = nextRaf
       /\ rafQueue' = (rafQueue \ { c }) \cup { Request(c.params, c.version) }
       /\ nextRaf' = nextRaf + 1
  /\ UNCHANGED << screen, displayed, errorMessage, appParams, paramsVersion,
                  isDragging, lastMousePos, active, pcInit, canvasRef, deviceRef,
                  contextRef, pipelineRef, uniformBufferRef, bindGroupRef,
                  lostArmed, compilePending, rendered, failed >>
  /\ UNCHANGED cleanupPending
  /\ UNCHANGED << kvars, nvars >>

\* setParams(prev => next): App's params state takes the value next.
SetParams(next) ==
  /\ screen = "renderer"
  /\ paramsVersion < MaxParamChanges
  /\ appParams' = next
  /\ paramsVersion' = paramsVersion + 1

\* The values the range inputs of ControlPanel are dragged to.
SliderInputs ==
  { << "spin", ONE >>, << "diskIntensity", 10 * ONE >>, << "zoom", 2500 >> }

\* ControlPanel.handleChange(key, value) from a range input
HandleChange ==
  /\ \E kv \in SliderInputs : SetParams([appParams EXCEPT ![kv[1]] = kv[2]])
  /\ UNCHANGED << screen, displayed, errorMessage, isDragging, lastMousePos,
                  active, pcInit, canvasRef, deviceRef, contextRef, pipelineRef,
                  uniformBufferRef, bindGroupRef, lostArmed, compilePending,
                  requestRef, rafQueue, nextRaf, rendered, uniformBuffer, frames,
                  frameCountRef, lastFpsTimeRef, clock, failed >>
  /\ UNCHANGED cleanupPending
  /\ UNCHANGED << kvars, nvars >>

\* handleChange('gravitationalLensing', params.gravitationalLensing > 0.5 ? 0 : 1)
ToggleLensing ==
  /\ SetParams([appParams EXCEPT !.gravitationalLensing =
                  IF rendered.params.gravitationalLensing > 500 THEN 0 ELSE ONE])
  /\ UNCHANGED << screen, displayed, errorMessage, isDragging, lastMousePos,
                  active, pcInit, canvasRef, deviceRef, contextRef, pipelineRef,
                  uniformBufferRef, bindGroupRef, lostArmed, compilePending,
                  requestRef, rafQueue, nextRaf, rendered, uniformBuffer, frames,
                  frameCountRef, lastFpsTimeRef, clock, failed >>
  /\ UNCHANGED cleanupPending
  /\ UNCHANGED << kvars, nvars >>

\* The wheel deltas and the pointer coordinates of the events.
WheelDeltas == { -4000, 4000 }

Pointers == { << 0, 0 >>, << 400, 400 >> }

\* A wheel handler without the clamp of the zoom.
HandleWheelUnclamped ==
  /\ \E deltaY \in WheelDeltas :
       SetParams([appParams EXCEPT !.zoom = appParams.zoom + deltaY * 5])
  /\ UNCHANGED << screen, displayed, errorMessage, isDragging, lastMousePos,
                  active, pcInit, canvasRef, deviceRef, contextRef, pipelineRef,
                  uniformBufferRef, bindGroupRef, lostArmed, compilePending,
                  requestRef, rafQueue, nextRaf, rendered, uniformBuffer, frames,
                  frameCountRef, lastFpsTimeRef, clock, failed >>
  /\ UNCHANGED cleanupPending
  /\ UNCHANGED << kvars, nvars >>

\* handleWheel: zoom = max(2.5, min(20, prev.zoom + e.deltaY * 0.005))
HandleWheel ==
  /\ \E deltaY \in WheelDeltas :
       SetParams([appParams EXCEPT !.zoom =
                    Max(2500, Min(20 * ONE, appParams.zoom + deltaY * 5))])
  /\ UNCHANGED << screen, displayed, errorMessage, isDragging, lastMousePos,
                  active, pcInit, canvasRef, deviceRef, contextRef, pipelineRef,
                  uniformBufferRef, bindGroupRef, lostArmed, compilePending,
                  requestRef, rafQueue, nextRaf, rendered, uniformBuffer, frames,
                  frameCountRef, lastFpsTimeRef, clock, failed >>
  /\ UNCHANGED cleanupPending
  /\ UNCHANGED << kvars, nvars >>

\* handleMouseDown: setIsDragging(true); setLastMousePos({ x, y }).
\* The updates of a discrete event are committed before the handler's task
\* ends; updates still pending from continuous events stay pending.
HandleMouseDown ==
  /\ screen = "renderer"
  /\ ~isDragging
  /\ isDragging' = TRUE
  /\ \E e \in Pointers :
       /\ lastMousePos' = e
       /\ rendered' = [rendered EXCEPT !.lastMousePos = e]
  /\ UNCHANGED << screen, displayed, errorMessage, appParams, paramsVersion,
                  active, pcInit, canvasRef, deviceRef, contextRef, pipelineRef,
                  uniformBufferRef, bindGroupRef, lostArmed, compilePending,
                  requestRef, rafQueue, nextRaf, uniformBuffer, frames,
                  frameCountRef, lastFpsTimeRef, clock, failed >>
  /\ UNCHANGED cleanupPending
  /\ UNCHANGED << kvars, nvars >>

\* handleMouseMove: if (!isDragging) return; dx, dy from the rendered
\* lastMousePos;
\* cameraAngle += dx * 0.005; cameraHeight = max(0.1, min(3.1, . + dy * 0.005))
HandleMouseMove ==
  /\ screen = "renderer"
  /\ isDragging
  /\ \E e \in Pointers :
       LET dx == e[1] - rendered.lastMousePos[1]
           dy == e[2] - rendered.lastMousePos[2]
       IN  /\ SetParams([appParams EXCEPT
                           !.cameraAngle = appParams.cameraAngle + dx * 5,
                           !.cameraHeight =
                             Max(100, Min(3100, appParams.cameraHeight + dy * 5))])
           /\ lastMousePos' = e
  /\ UNCHANGED << screen, displayed, errorMessage, isDragging, active, pcInit,
                  canvasRef, deviceRef, contextRef, pipelineRef,
                  uniformBufferRef, bindGroupRef, lostArmed, compilePending,
                  requestRef, rafQueue, nextRaf, rendered, uniformBuffer, frames,
                  frameCountRef, lastFpsTimeRef, clock, failed >>
  /\ UNCHANGED cleanupPending
  /\ UNCHANGED << kvars, nvars >>

\* handleMouseUp (onMouseUp, onMouseLeave): setIsDragging(false), a discrete
\* event as well
HandleMouseUp ==
  /\ screen = "renderer"
  /\ isDragging
  /\ isDragging' = FALSE
  /\ UNCHANGED << screen, displayed, errorMessage, appParams, paramsVersion,
                  lastMousePos, active, pcInit, canvasRef, deviceRef, contextRef,
                  pipelineRef, uniformBufferRef, bindGroupRef, lostArmed,
                  compilePending, requestRef, rafQueue, nextRaf, rendered,
                  uniformBuffer, frames, frameCountRef, lastFpsTimeRef, clock, failed >>
  /\ UNCHANGED cleanupPending
  /\ UNCHANGED << kvars, nvars >>

\* App's commit takes the renderer out of the tree: React detaches the canvas
\* ref with the commit, and runs the cleanups of the effects after it.
Detach ==
  /\ canvasRef' = FALSE
  /\ cleanupPending' = TRUE

\* React commits App's pending state.  With an error message App returns
\* ErrorDisplay, which unmounts the renderer; with new params the render
\* effect is cleaned up and run again over the new params.
Commit ==
  /\ screen = "renderer"
  /\ \/ errorMessage # NULL
     \/ rendered # [params |-> appParams, version |-> paramsVersion,
                    lastMousePos |-> lastMousePos]
  /\ rendered' = [params |-> appParams, version |-> paramsVersion,
                  lastMousePos |-> lastMousePos]
  /\ IF errorMessage # NULL
       THEN /\ screen' = "error"
            /\ displayed' = errorMessage
            /\ Detach
            /\ UNCHANGED << requestRef, rafQueue, nextRaf >>
     ELSE IF rendered.version # paramsVersion
       THEN /\ rafQueue' = CancelPending(rafQueue)
                             \cup { Request(appParams, paramsVersion) }
            /\ requestRef' = nextRaf
            /\ nextRaf' = nextRaf + 1
            /\ UNCHANGED << screen, displayed, canvasRef, cleanupPending >>
     ELSE UNCHANGED << screen, displayed, canvasRef, cleanupPending, requestRef,
                       rafQueue, nextRaf >>
  /\ UNCHANGED << errorMessage, appParams, paramsVersion, isDragging,
                  lastMousePos, active, pcInit, deviceRef, contextRef,
                  pipelineRef, uniformBufferRef, bindGroupRef, lostArmed,
                  compilePending, uniformBuffer, frames, frameCountRef,
                  lastFpsTimeRef, clock, failed >>
  /\ UNCHANGED << kvars, nvars >>

\* App renders again while ErrorDisplay is shown: a failure reported between
\* the unmount and the cleanups replaced the message.
Recommit ==
  /\ screen = "error"
  /\ displayed # errorMessage
  /\ displayed' = errorMessage
  /\ UNCHANGED << screen, errorMessage, appParams, paramsVersion, isDragging,
                  lastMousePos, active, pcInit, canvasRef, deviceRef, contextRef,
                  pipelineRef, uniformBufferRef, bindGroupRef, lostArmed,
                  compilePending, requestRef, rafQueue, nextRaf, rendered,
                  uniformBuffer, frames, frameCountRef, lastFpsTimeRef, clock,
                  failed, cleanupPending >>
  /\ UNCHANGED << kvars, nvars >>

\* The application is torn down (the root is unmounted) for any other reason.
Unmount ==
  /\ screen = "renderer"
  /\ screen' = "gone"
  /\ Detach
  /\ UNCHANGED << displayed, errorMessage, appParams, paramsVersion, isDragging,
                  lastMousePos, active, pcInit, deviceRef, contextRef,
                  pipelineRef, uniformBufferRef, bindGroupRef, lostArmed,
                  compilePending, requestRef, rafQueue, nextRaf, rendered,
                  uniformBuffer, frames, frameCountRef, lastFpsTimeRef, clock,
                  failed >>
  /\ UNCHANGED << kvars, nvars >>

\* The cleanups of the unmounted renderer's effects: active = false, and
\* if (requestRef.current) cancelAnimationFrame(requestRef.current).
Cleanup ==
  /\ cleanupPending
  /\ cleanupPending' = FALSE
  /\ active' = FALSE
  /\ rafQueue' = CancelPending(rafQueue)
  /\ UNCHANGED << screen, displayed, errorMessage, appParams, paramsVersion,
                  isDragging, lastMousePos, pcInit, canvasRef, deviceRef,
                  contextRef, pipelineRef, uniformBufferRef, bindGroupRef,
                  lostArmed, compilePending, requestRef, nextRaf, rendered,
                  uniformBuffer, frames, frameCountRef, lastFpsTimeRef, clock,
                  failed >>
  /\ UNCHANGED << kvars, nvars >>

HarnessNext ==
  \/ Mount
  \/ AdapterResolved
  \/ DeviceResolved
  \/ CompilationInfo
  \/ DeviceLost
  \/ RenderCallback
  \/ HandleChange
  \/ ToggleLensing
  \/ HandleWheel
  \/ HandleMouseDown
  \/ HandleMouseMove
  \/ HandleMouseUp
  \/ Commit
  \/ Recommit
  \/ Unmount
  \/ Cleanup

---------------------------------------------------------------------------
\* The two specifications

vars == << kvars, hvars, nvars >>

\* No pixel is being computed.
KernelIdle ==
  /\ params = Uniform(InitialParams, 0)
  /\ uv = << ONE \div 2, ONE \div 2 >>
  /\ phys = Physics(params)
  /\ pos = params.camera_pos
  /\ vel = Zero3
  /\ color = Zero3
  /\ transmittance = ONE
  /\ step_dist = 0
  /\ i = 0
  /\ pc = "idle"
  /\ outcome = "MARCHING"
  /\ final_col = Zero3
  /\ travel = 0
  /\ weight = 0

\* The kernel, one pixel of one frame at a time; the harness stands still.
\* No helper function is being evaluated.
NumericIdle ==
  /\ fn = "none"
  /\ fnArg = << >>
  /\ fnRes = << >>

Init == KernelInit /\ HarnessInit /\ NumericIdle

Next == KernelNext

Spec == Init /\ [][Next]_vars

\* The harness; no pixel is computed.
HarnessSpecInit == HarnessInit /\ KernelIdle /\ NumericIdle

HarnessSpec == HarnessSpecInit /\ [][HarnessNext]_vars

\* The helper functions on sampled arguments; no pixel is computed and the
\* harness is not started.
NumericSpecInit == NumericInit /\ KernelIdle /\ HarnessInit

NumericSpec == NumericSpecInit /\ [][NumericNext]_vars

---------------------------------------------------------------------------
\* Properties of the kernel (under Spec)

\* C1: the accumulated transmittance starts at 1, and no step of the ray
\* march takes it below 0 or raises it; so it lies in [0,1] in every state
\* of the loop and never increases from one state to the next.
C1_TransmittanceNonIncreasing ==
  /\ transmittance = ONE
  /\ [][0 <= transmittance' /\ transmittance' <= transmittance]_vars

\* A ray that the disk has dimmed part of the way and that marches on.
C1_Witness ==
  pc = "loop" /\ i > 0 /\ 0 < transmittance /\ transmittance < ONE

\* C2: the loop ends within 120 iterations, in one of the four outcomes:
\* while marching every pass through the body either counts one more
\* iteration or leaves the loop, the count never passes 120, a ray is ABSORBED
\* only with r below the horizon at the start of the iteration, OPAQUE only
\* with transmittance below 0.01, ESCAPED only with r above 30 at the start of
\* the iteration, STEP_LIMIT only after 120 iterations, and once the outcome
\* is terminal no iteration runs: position, velocity, transmittance and the
\* counters stay as they are and the outcome is kept.
C2_LoopTerminates ==
  [][ /\ i' <= 120
      /\ outcome' \in { "MARCHING", "ABSORBED", "OPAQUE", "ESCAPED", "STEP_LIMIT" }
      /\ (pc' = "loop") <=> (outcome' = "MARCHING")
      /\ (pc = "loop" /\ pc' = "loop") => (i' = i + 1 \/ UNCHANGED vars)
      /\ (outcome = "MARCHING" /\ outcome' = "ABSORBED")
           => Radius(pos) < phys.horizon_r
      /\ (outcome = "MARCHING" /\ outcome' = "OPAQUE") => transmittance' < 10
      /\ (outcome = "MARCHING" /\ outcome' = "ESCAPED") => Radius(pos) > 30 * ONE
      /\ (outcome = "MARCHING" /\ outcome' = "STEP_LIMIT") => i = 120
      /\ outcome # "MARCHING"
           => /\ outcome' = outcome
              /\ UNCHANGED << pos, vel, transmittance, step_dist, i, travel >>
    ]_vars

\* A ray that used up all 120 iterations and has been tone mapped.
C2_Witness == pc = "done" /\ outcome = "STEP_LIMIT" /\ i = 120

\* C3: a ray that starts inside the horizon is ABSORBED in the first
\* iteration: it never moves or counts an iteration, its color is (0,0,0) in
\* every state, up to and including the tone mapper's input, and its
\* transmittance is 0 from the moment the loop is left.
C3_StartInsideHorizon ==
  Length(params.camera_pos) < phys.horizon_r
    => /\ color = Zero3
       /\ i = 0
       /\ pos = params.camera_pos
       /\ pc = "loop" => (outcome = "MARCHING" /\ transmittance = ONE)
       /\ pc # "loop" => (outcome = "ABSORBED" /\ transmittance = 0)

\* Such a ray, after the background stage and the tone mapper.
C3_Witness ==
  /\ Length(params.camera_pos) < phys.horizon_r
  /\ pc = "done"
  /\ outcome = "ABSORBED"

\* C4, as claimed: the background stage leaves the color of an OPAQUE ray
\* as it was at loop exit.
C4_OpaqueNoSky ==
  [][(pc = "background" /\ outcome = "OPAQUE") => color' = color]_vars

\* C4, amended: an OPAQUE ray leaves the loop with transmittance below 0.01,
\* and the background stage adds the sky color scaled by that remaining
\* transmittance to its color.
C4_OpaqueSkyWeighted ==
  [][(pc = "background" /\ outcome = "OPAQUE")
       => /\ transmittance < 10
          /\ color' = Add(color, Scale(BackgroundColor(params, vel),
                                        transmittance))]_vars

\* An OPAQUE ray past the background stage whose share of the sky is not zero.
C4_Witness ==
  /\ pc = "tonemap"
  /\ outcome = "OPAQUE"
  /\ Scale(BackgroundColor(params, vel), transmittance) # Zero3

\* C5: with lensing disabled every step leaves the velocity unchanged and
\* moves the position by velocity * h, so that the position is start +
\* velocity * (sum of the h so far), up to one unit of rounding per step.
C5_StraightRays ==
  [][params.lensing_enabled <= 500
       => /\ vel' = vel
          /\ pos' = Add(pos, Scale(vel, travel' - travel))
          /\ \A c \in 1..3 :
               Abs(pos'[c] - (params.camera_pos[c] + Mul(vel[c], travel')))
                 <= i' + 1]_vars

\* A straight ray that has taken several steps close to the hole, where the
\* accelerations are not negligible.
C5_Witness ==
  /\ params.lensing_enabled <= 500
  /\ pc = "loop"
  /\ i >= 3
  /\ travel > 0
  /\ acc_total(params, pos, vel, Radius(pos), Dot(pos, pos)) # Zero3

\* C6: a ray that starts at r = 25, moving directly away from the origin,
\* with lensing disabled, never ends STEP_LIMIT, OPAQUE or ABSORBED: it
\* ESCAPES with r > 30 after 11 counted iterations at most (steps of 0.5 from
\* r = 25), and its transmittance is 1 throughout.
C6_OutwardRayEscapes ==
  (/\ Length(params.camera_pos) = 25 * ONE
   /\ vel = Normalize(params.camera_pos)
   /\ params.lensing_enabled <= 500)
    => /\ transmittance = ONE
       /\ i <= 11
       /\ pc = "loop" => outcome = "MARCHING"
       /\ pc # "loop" => (outcome = "ESCAPED" /\ Radius(pos) > 30 * ONE)

\* That ray, having left the loop and been tone mapped.
C6_Witness ==
  /\ Length(params.camera_pos) = 25 * ONE
  /\ vel = Normalize(params.camera_pos)
  /\ params.lensing_enabled <= 500
  /\ pc = "done"
  /\ outcome = "ESCAPED"

\* C7: every use of the spin in the kernel is a use of the clamped spin: the
\* velocity a step produces is the one it produces when the spin input is
\* replaced by its clamped value.
C7_SpinClampedEverywhere ==
  (pc = "loop" /\ ~Absorbed(phys, Radius(pos)))
    => NextVel(params, pos, vel, Radius(pos), Dot(pos, pos),
               StepSize(phys, Radius(pos)))
         = NextVel([params EXCEPT !.spin = phys.spin_a], pos, vel, Radius(pos),
                   Dot(pos, pos), StepSize(phys, Radius(pos)))

\* C11, as claimed: at a loop iteration that is not absorbed the disk shader
\* is invoked exactly when transmittance > 0.01, 0.9 * ISCO <= r <= 12 and
\* |y| < 0.05 + 0.001 * r^2.
C11_TriggerInclusive ==
  (pc = "loop" /\ ~Absorbed(phys, Radius(pos)))
    => (InDisk(phys, pos, Radius(pos), transmittance)
          <=> /\ transmittance > 10
              /\ Mul(Isco(phys.spin_a), 900) <= Radius(pos)
              /\ Radius(pos) <= 12 * ONE
              /\ Abs(pos[2]) < 50 + (Radius(pos) * Radius(pos)) \div (ONE * ONE))

\* C11, amended: the same with both radial bounds strict,
\* 0.9 * ISCO < r < 12.
C11_TriggerStrict ==
  (pc = "loop" /\ ~Absorbed(phys, Radius(pos)))
    => (InDisk(phys, pos, Radius(pos), transmittance)
          <=> /\ transmittance > 10
              /\ Mul(Isco(phys.spin_a), 900) < Radius(pos)
              /\ Radius(pos) < 12 * ONE
              /\ Abs(pos[2]) < 50 + (Radius(pos) * Radius(pos)) \div (ONE * ONE))

\* An iteration that starts at r = 12 exactly, inside the disk's thickness,
\* with the ray still transparent: the disk shader is not invoked.
C11_Witness ==
  /\ pc = "loop"
  /\ i > 0
  /\ Radius(pos) = 12 * ONE
  /\ transmittance > 10
  /\ Abs(pos[2]) < disk_h(Radius(pos))
  /\ ~InDisk(phys, pos, Radius(pos), transmittance)

\* C12, as claimed: at a position inside the disk region the gas velocity
\* is the same for every spin input that has the position inside its disk
\* region.
C12_GasVelocitySpinFree ==
  (pc = "loop" /\ InDisk(phys, pos, Radius(pos), transmittance))
    => \A s \in SpinInputs :
         InDisk(Physics([params EXCEPT !.spin = s]), pos, Radius(pos),
                transmittance)
           => vel_gas(Physics([params EXCEPT !.spin = s]), pos, Radius(pos))
                = vel_gas(phys, pos, Radius(pos))

\* C12, amended: the gas turns at the Keplerian angular velocity
\* 1 / (r^1.5 + spin_a) alone, the frame-dragging angular velocity is not
\* added to it; the gas velocity depends on the spin through the clamped spin
\* in that denominator and through nothing else.
C12_GasVelocityKeplerian ==
  (pc = "loop" /\ InDisk(phys, pos, Radius(pos), transmittance))
    => /\ vel_gas(phys, pos, Radius(pos))
            = Scale(<< -pos[3], 0, pos[1] >>,
                    Div(ONE, Mul(Radius(pos), Sqrt(Radius(pos))) + phys.spin_a))
       /\ \A s \in SpinInputs :
            SpinA(s) = phys.spin_a
              => vel_gas(Physics([params EXCEPT !.spin = s]), pos, Radius(pos))
                   = vel_gas(phys, pos, Radius(pos))

\* A disk sample of a spinning hole where the frame-dragging angular
\* velocity is not zero.
C12_Witness ==
  /\ pc = "loop"
  /\ InDisk(phys, pos, Radius(pos), transmittance)
  /\ phys.spin_a > 0
  /\ omega_space(phys, Radius(pos), Dot(pos, pos)) > 0

\* C13: no step of the pixel computation lowers a component of the color,
\* and an iteration that shades a disk sample (inside the disk region,
\* beta^2 < 0.99, density > 0.05) adds emission * alpha * T to the color,
\* with T the transmittance before the sample, and then multiplies the
\* transmittance by (1 - alpha).
C13_ColorGrows ==
  [][ /\ \A c \in 1..3 : color'[c] >= color[c]
      /\ LET r == Radius(pos)
             beta_vec == vel_gas(phys, pos, r)
             beta_sq == Dot(beta_vec, beta_vec)
             cos_theta == Dot(Normalize(beta_vec), Neg(Normalize(vel)))
             shift == Mul(Doppler(beta_sq, cos_theta), grav_redshift(r))
             density == Density(params, phys, pos, r)
             alpha == ONE - ExpNeg(2 * Mul(density, Max(10, step_dist)))
         IN  (/\ pc = "loop"
              /\ i < max_steps
              /\ ~Absorbed(phys, r)
              /\ InDisk(phys, pos, r, transmittance)
              /\ beta_sq < 990
              /\ density > 50)
               => /\ color' = Add(color,
                                  Scale(Scale(Emission(params, phys, r, density,
                                                       shift), alpha),
                                        transmittance))
                  /\ transmittance' = Mul(transmittance, ONE - alpha)
    ]_vars

\* A ray of the brighter disk that the disk has lit and dimmed.
C13_Witness ==
  /\ pc = "loop"
  /\ params.disk_intensity = 2 * ONE
  /\ color # Zero3
  /\ transmittance < ONE

\* C14: a ray that left the loop as ESCAPED or STEP_LIMIT has transmittance
\* >= 0.01 and the background stage adds the sky color scaled by that
\* transmittance, the same way for both outcomes; the sky is added once: the
\* step that ends the loop at the step limit and the tone mapping leave the
\* color alone.
C14_SkyOnce ==
  [][ /\ (pc = "background" /\ outcome \in { "ESCAPED", "STEP_LIMIT" })
           => /\ transmittance >= 10
              /\ color' = Add(color, Scale(BackgroundColor(params, vel),
                                           transmittance))
              /\ pc' = "tonemap"
      /\ (pc = "loop" /\ outcome' = "STEP_LIMIT")
           => (color' = color /\ transmittance' = transmittance)
      /\ pc = "tonemap" => color' = color
    ]_vars

\* A ray that ran out of steps and has received a sky that is not black.
C14_Witness ==
  /\ pc = "tonemap"
  /\ outcome = "STEP_LIMIT"
  /\ transmittance >= 10
  /\ Scale(BackgroundColor(params, vel), transmittance) # Zero3

C18_AbsorbedAfterMarch ==
  [][ /\ (pc = "loop" /\ i > 0 /\ i < max_steps /\ Absorbed(phys, Radius(pos)))
           => /\ outcome' = "ABSORBED"
              /\ pc' = "background"
              /\ transmittance' = 0
              /\ color' = color
              /\ pos' = pos /\ vel' = vel /\ step_dist' = step_dist /\ i' = i
      /\ (pc = "background" /\ outcome = "ABSORBED")
           => (transmittance = 0 /\ color' = color)
    ]_vars

\* A ray absorbed after it took light from the disk, past the background
\* stage.
C18_Witness ==
  /\ pc = "tonemap"
  /\ outcome = "ABSORBED"
  /\ i > 0
  /\ color # Zero3

\* C19: every iteration that reaches the geodesic step takes a step h in
\* [0.02, 0.5], h = clamp(0.05 * (r - horizon_r), 0.02, 0.5); the segment
\* length a disk sample sees is 0.01 at iteration 0 and, at an iteration
\* i > 0, exactly the h of iteration i - 1.
C19_SegmentIsLastStep ==
  /\ [](pc = "loop"
          => IF i = 0
               THEN step_dist = 0 /\ segment_len(step_dist) = 10
               ELSE /\ 20 <= step_dist /\ step_dist <= 500
                    /\ segment_len(step_dist) = step_dist)
  /\ [][ (pc = "loop" /\ travel' # travel)
           => /\ travel' - travel = StepSize(phys, Radius(pos))
              /\ 20 <= travel' - travel /\ travel' - travel <= 500
              /\ step_dist' = travel' - travel
              /\ segment_len(step_dist') = travel' - travel
       ]_vars

\* A disk sample at an iteration after the first whose preceding step was
\* strictly between the two limits of the clamp.
C19_Witness ==
  /\ pc = "loop"
  /\ i > 0
  /\ i < max_steps
  /\ InDisk(phys, pos, Radius(pos), transmittance)
  /\ 20 < step_dist /\ step_dist < 500

\* C20: a disk sample whose density is at most 0.05 leaves the color and the
\* transmittance as they are; an iteration of the loop that does not absorb
\* the ray changes either of them only at a disk sample (inside the disk
\* region, beta^2 < 0.99) whose density is above 0.05.
C20_DensityThreshold ==
  [][ LET r == Radius(pos)
          beta_vec == vel_gas(phys, pos, r)
          beta_sq == Dot(beta_vec, beta_vec)
          density == Density(params, phys, pos, r)
          sampled == InDisk(phys, pos, r, transmittance) /\ beta_sq < 990
      IN  (pc = "loop" /\ i < max_steps /\ ~Absorbed(phys, r))
            => /\ (sampled /\ density <= 50)
                    => (color' = color /\ transmittance' = transmittance)
               /\ (color' # color \/ transmittance' # transmittance)
                    => (sampled /\ density > 50)
    ]_vars

\* A disk sample with some gas in it, but not above the threshold.
C20_Witness ==
  /\ pc = "loop"
  /\ i < max_steps
  /\ InDisk(phys, pos, Radius(pos), transmittance)
  /\ Dot(vel_gas(phys, pos, Radius(pos)), vel_gas(phys, pos, Radius(pos))) < 990
  /\ 0 < Density(params, phys, pos, Radius(pos))
  /\ Density(params, phys, pos, Radius(pos)) <= 50

\* C21: in every state of the loop the factors alpha_k * T_k given to the
\* samples shaded so far and the current transmittance add up to 1: a
\* sample moves alpha * T from the transmittance to the weight and nothing
\* else changes their sum. Each of the two products of a sample is cut to a
\* step of the arithmetic, so a sample may lose one step of the sum, never
\* more, and the sum never exceeds 1; after i iterations it is within i
\* steps of 1. The weight of the disk emission is therefore at most 1.
C21_PartitionOfUnity ==
  /\ [](pc = "loop"
          => /\ 0 <= weight /\ weight <= ONE
             /\ weight + transmittance <= ONE
             /\ weight + transmittance >= ONE - i)
  /\ [][ (pc = "loop" /\ outcome' # "ABSORBED")
           => (weight' + transmittance') - (weight + transmittance)
                \in { -1, 0 }
       ]_vars

\* A ray in the loop that has given part of its transmittance to the disk.
C21_Witness ==
  /\ pc = "loop"
  /\ i > 0
  /\ weight > 0
  /\ transmittance >= 10
  /\ transmittance < ONE

\* C23: compositing never takes the transmittance to 0, so in the loop it is
\* above 0, and once the loop is left it is 0 exactly for the rays that
\* were absorbed; the test "transmittance > 0.0" of the background stage
\* therefore fails exactly for the absorbed rays.
C23_ZeroOnlyIfAbsorbed ==
  /\ pc = "loop" => transmittance > 0
  /\ pc \in { "background", "tonemap", "done" }
       => (transmittance = 0 <=> outcome = "ABSORBED")
  /\ pc = "background" => (~(transmittance > 0) <=> outcome = "ABSORBED")

\* A ray the disk made opaque, past the background stage, with some
\* transmittance left.
C23_Witness ==
  /\ pc = "tonemap"
  /\ outcome = "OPAQUE"
  /\ 0 < transmittance /\ transmittance < 10

---------------------------------------------------------------------------
\* Properties of the harness (under HarnessSpec)

\* C8: every failure that happens while the renderer is active leaves a
\* non-null error message; init() never ends short of the bind group, with
\* the renderer or ErrorDisplay on screen, without one; and what ErrorDisplay
\* shows is always set from the error message of that moment, never null.
C8_FailuresSurface ==
  /\ [](failed # NULL => errorMessage # NULL)
  /\ []((pcInit = "done" /\ ~bindGroupRef /\ screen \in { "renderer", "error" })
          => errorMessage # NULL)
  /\ [](screen = "error" => displayed # NULL)
  /\ [][displayed' # displayed
          => /\ screen' = "error"
             /\ errorMessage # NULL
             /\ displayed' = errorMessage]_vars

\* The device was lost mid-session and ErrorDisplay shows its message.
C8_Witness ==
  /\ screen = "error"
  /\ failed = "device_lost"
  /\ displayed = "WebGPU device lost"
  /\ frames # << >>

\* C9: an error message, once set, is never reset to null; ErrorDisplay, once
\* shown, stays; after the unmount no frame is submitted and no uniform is
\* written; and once the cleanups of the unmounted renderer have run no
\* animation-frame callback is pending.
C9_ErrorIsFatal ==
  /\ [](screen = "error" => errorMessage # NULL)
  /\ []((screen \in { "error", "gone" } /\ ~cleanupPending) => rafQueue = {})
  /\ [][ /\ errorMessage # NULL => errorMessage' # NULL
         /\ screen = "error" => screen' = "error"
         /\ screen \in { "error", "gone" }
              => (frames' = frames /\ uniformBuffer' = uniformBuffer) ]_vars

\* An error after frames were drawn, with the renderer unmounted, its cleanups
\* run and its pending request cancelled.
C9_Witness ==
  /\ screen = "error"
  /\ ~cleanupPending
  /\ frames # << >>
  /\ requestRef # 0
  /\ rafQueue = {}

\* C10: every submitted frame is drawn from the uniform record that the same
\* callback packed from the params (and params version) of the latest run of
\* the render effect and wrote to the uniform buffer; so the params versions
\* of the submitted frames never decrease.
C10_FramesFromCommittedParams ==
  /\ [](\A a, b \in 1..Len(frames) :
          a <= b => frames[a].version <= frames[b].version)
  /\ [](frames # << >> => uniformBuffer = frames[Len(frames)].uniform)
  /\ [][frames' # frames
          => /\ frames' = Append(frames, frames'[Len(frames')])
             /\ frames'[Len(frames')].version = rendered.version
             /\ frames'[Len(frames')].uniform
                  = Uniform(rendered.params, clock' * ONE)
             /\ uniformBuffer' = frames'[Len(frames')].uniform]_vars

\* A frame with the initial spin, then a frame with the spin of a committed
\* slider change.
C10_Witness ==
  /\ Len(frames) >= 2
  /\ frames[1].version = 0
  /\ frames[Len(frames)].version = 1
  /\ frames[1].uniform.spin # frames[Len(frames)].uniform.spin

\* C24: whatever events have been handled, App's params have zoom in
\* [2.5, 20], cameraHeight in [0.1, 3.1], spin in [0, 1], diskIntensity in
\* [0, 10] and gravitationalLensing 0 or 1; the polar angle the render
\* callback derives is the cameraHeight itself, strictly between 0 and pi;
\* and the uniforms written for a frame always have the camera outside the
\* horizon of their spin and a view direction that is not parallel to
\* world-up.
C24_ParamsInRange ==
  /\ [](/\ 2500 <= appParams.zoom /\ appParams.zoom <= 20 * ONE
        /\ 100 <= appParams.cameraHeight /\ appParams.cameraHeight <= 3100
        /\ 0 <= appParams.spin /\ appParams.spin <= ONE
        /\ 0 <= appParams.diskIntensity /\ appParams.diskIntensity <= 10 * ONE
        /\ appParams.gravitationalLensing \in { 0, ONE }
        /\ LET phi == Max(10, Min(PI - 10, appParams.cameraHeight))
           IN  phi = appParams.cameraHeight /\ 0 < phi /\ phi < PI)
  /\ [][ Len(frames') > Len(frames)
           => /\ Radius(uniformBuffer'.camera_pos)
                   > HorizonRadius(SpinA(uniformBuffer'.spin))
              /\ Radius(uniformBuffer'.camera_pos) > 2 * ONE
              /\ Cross(uniformBuffer'.camera_dir, << 0, ONE, 0 >>) # Zero3
              /\ frames'[Len(frames')].uniform = uniformBuffer'
       ]_vars

\* A frame submitted from the nearest camera the controls allow, after the
\* zoom was taken to its lower limit.
C24_Witness ==
  /\ appParams.zoom = 2500
  /\ Len(frames) > 0
  /\ Radius(uniformBuffer.camera_pos) < 2600

\* C25: once the cleanup of the init effect has run (active is false after
\* the mount), no step sets App's error message, stores a device, a
\* context, a pipeline, a uniform buffer or a bind group in a ref, or
\* registers a device.lost or getCompilationInfo handler: the continuations
\* of init that are still pending end without effect.
C25_InertAfterCleanup ==
  [][ (~active /\ screen # "none")
        => /\ errorMessage' = errorMessage
           /\ UNCHANGED << deviceRef, contextRef, pipelineRef, uniformBufferRef,
                           bindGroupRef >>
           /\ lostArmed' => lostArmed
           /\ compilePending' => compilePending
           /\ ~active'
    ]_vars

\* The renderer was unmounted and cleaned up while init was waiting, and the
\* wait has ended since: no device stored, no error reported.
C25_Witness ==
  /\ screen = "gone"
  /\ ~active
  /\ pcInit = "done"
  /\ ~deviceRef
  /\ errorMessage = NULL

\* C26: as long as one of device, context, pipeline, uniform buffer and bind
\* group is not stored, no step writes the uniforms, submits a frame or
\* counts one for the FPS, and a step that requests an animation frame does
\* nothing else to the render loop than leave that request pending; so if a
\* frame has been submitted, all five are stored.
C26_NoFrameBeforeInit ==
  /\ [](Len(frames) > 0
          => (deviceRef /\ contextRef /\ pipelineRef /\ uniformBufferRef
                /\ bindGroupRef))
  /\ [][ ~(deviceRef /\ contextRef /\ pipelineRef /\ uniformBufferRef
             /\ bindGroupRef)
           => /\ UNCHANGED << uniformBuffer, frames, frameCountRef,
                              lastFpsTimeRef >>
              /\ nextRaf' # nextRaf
                   => /\ requestRef' = nextRaf
                      /\ \E c \in rafQueue' : c.id = nextRaf
       ]_vars

\* Init is still waiting for the device, no parameter has changed and no
\* frame has been submitted, but a render callback has already run and
\* requested the next one.
C26_Witness ==
  /\ screen = "renderer"
  /\ pcInit = "device"
  /\ paramsVersion = 0
  /\ nextRaf > 2
  /\ rafQueue # {}
  /\ Len(frames) = 0

\* C27: at most one animation-frame request of the render loop is pending
\* at any time, and it is the one whose handle requestRef holds, so that a
\* cleanup cancels it; once the renderer is unmounted and its cleanups have
\* run, no request is pending, and none is made afterwards.
C27_OneRenderLoop ==
  /\ [](/\ Cardinality(rafQueue) <= 1
        /\ \A c \in rafQueue : c.id = requestRef
        /\ (screen \in { "error", "gone" } /\ ~cleanupPending)
             => rafQueue = {})
  /\ [][ (screen \in { "error", "gone" } /\ ~cleanupPending)
           => UNCHANGED << rafQueue, requestRef, nextRaf, frames >>
       ]_vars

\* A frame was submitted, then the parameters changed and the render effect
\* ran again: the one request pending is the new closure's.
C27_Witness ==
  /\ screen = "renderer"
  /\ Len(frames) > 0
  /\ rendered.version > 0
  /\ Cardinality(rafQueue) = 1
  /\ \A c \in rafQueue : c.version = rendered.version /\ c.id > 2

---------------------------------------------------------------------------
\* Properties of the helper functions (under NumericSpec)

\* C16: of two spins a < b that the slider and the clamp can produce, both
\* in [0, 0.99], the greater has the strictly smaller horizon radius
\* 1 + sqrt(1 - a^2); horizonRadius(0) is exactly 2, and horizonRadius(0.9)
\* is below horizonRadius(0).
C16_HorizonDecreasing ==
  (fn = "horizon_r" /\ fnRes # << >>)
    => /\ fnRes[2] < fnRes[1]
       /\ fnArg[1] = 0 => fnRes[1] = 2 * FINE
       /\ fnArg = << 0, 9 * (FINE \div 10) >> => fnRes[2] < 2 * FINE

\* The two smallest spins of the slider, evaluated, the horizon radius of the
\* second below 2.
C16_Witness ==
  /\ fn = "horizon_r"
  /\ fnArg = << 0, FINE \div 100 >>
  /\ fnRes # << >>
  /\ fnRes[1] = 2 * FINE
  /\ fnRes[2] < fnRes[1]

\* C17: for 0 < beta^2 < 0.99 the Doppler factor is above 1 for gas moving
\* straight toward the viewer (cos theta = 1) and below 1 for gas moving
\* straight away (cos theta = -1).
C17_DopplerSides ==
  (fn = "doppler" /\ fnRes # << >>)
    => /\ fnArg[2] = ONE => fnRes[1] > ONE
       /\ fnArg[2] = -ONE => fnRes[1] < ONE

\* The slowest gas of the arithmetic, receding, evaluated.
C17_Witness ==
  /\ fn = "doppler"
  /\ fnArg = << 1, -ONE >>
  /\ fnRes # << >>
  /\ fnRes[1] < ONE

\* C22: for every spin and every position that satisfies the disk trigger,
\* the gas speed has beta^2 < 0.99, so a sample inside the disk region always
\* takes the branch that evaluates the density.
C22_GasSubluminal ==
  (fn = "beta_sq" /\ fnRes # << >>)
    => (0 <= fnRes[1] /\ fnRes[1] < 990)

\* The fastest spin, at a position in the disk plane next to the inner edge,
\* evaluated: the gas moves, below the limit.
C22_Witness ==
  /\ fn = "beta_sq"
  /\ fnArg[1] = 1000
  /\ fnArg[2][2] = 0
  /\ Radius(fnArg[2]) < AccretionMin(990) + ONE \div 2
  /\ fnRes # << >>
  /\ 0 < fnRes[1] /\ fnRes[1] < 990

====
